---- MODULE Spec2Model ----
(***************************************************************************)
(* Model of AiraloService (src/src/services/airalo.service.ts): the token  *)
(* field, getHeaders, handleRequest, authenticate, the response-failure    *)
(* interceptor handleAxiosError and the AiraloError class                  *)
(* (src/src/interfaces/error.interface.ts).                                *)
(*                                                                         *)
(* A logical call is one invocation of a public method by a caller.  Each  *)
(* caller is a process whose position is pc and whose pending              *)
(* handleRequest invocations are the frames of stack.  Every await of the  *)
(* code is a point where the steps of other callers may interleave.        *)
(***************************************************************************)
EXTENDS Integers, Sequences, FiniteSets, TLC

(* ------------------------------ bounds -------------------------------- *)
NumCallers == 2     \* concurrent callers of one client
MaxCalls   == 2     \* logical calls made on the client
MaxDepth   == 2     \* pending handleRequest invocations of one logical call
NumTokens  == 2     \* distinct access tokens the login endpoint hands out
NumPayloads == 2    \* distinct payloads an endpoint returns
MaxRaceFailures == 2    \* failed answers to one call, calls made together

(* ------------------------- program constants -------------------------- *)
maxRetries == 3
retryDelay == 1000

INSUFFICIENT_CREDIT  == 11
OPERATOR_MAINTENANCE == 13
INVALID_CHECKSUM     == 14
TOPUP_DISABLED       == 23
INSUFFICIENT_STOCK   == 33
PACKAGE_INVALID      == 34
BAD_REQUEST          == 43
UNEXPECTED_ERROR     == 53

Callers  == 1..NumCallers
Tokens   == 1..NumTokens
Payloads == 1..NumPayloads

(* --------------------------- JavaScript values ------------------------ *)
\* The value undefined of an optional string, of the token field and of a
\* status that is not there.
Undef    == "undefined"
NoToken  == 0
NoStatus == 0

\* A value found in the `code` field of an error body or of an AiraloError.
\* t = "number": the number n; t = "name": the string that is the name of the
\* enum member n ("BAD_REQUEST" for 43); t = "string": another non-empty
\* string (for instance "11"); t = "undefined": no code.
NumCode(n)  == [t |-> "number", n |-> n]
NameCode(n) == [t |-> "name", n |-> n]
TextCode    == [t |-> "string", n |-> 0]
NoCode      == [t |-> "undefined", n |-> 0]

\* The numeric members of the enum AiraloErrorCode.
AiraloErrorCode ==
    {INSUFFICIENT_CREDIT, OPERATOR_MAINTENANCE, INVALID_CHECKSUM, TOPUP_DISABLED,
     INSUFFICIENT_STOCK, PACKAGE_INVALID, BAD_REQUEST, UNEXPECTED_ERROR}

\* Object.values(AiraloErrorCode).includes(code): a numeric TypeScript enum
\* compiles to an object holding name -> number and number -> name, so its
\* values are the numbers and the names of the members.
ObjectValuesIncludes(code) ==
    /\ code.t \in {"number", "name"}
    /\ code.n \in AiraloErrorCode

\* JavaScript truthiness of a code and of an optional string.
TruthyCode(code) == code.t \in {"name", "string"} \/ (code.t = "number" /\ code.n # 0)
TruthyStr(s)     == s \notin {Undef, ""}

\* StrOr with its operands exchanged: the body's message taken first.
StrOrMessageFirst(a, b) == IF TruthyStr(b) THEN b ELSE a

\* a || b on optional strings.
StrOr(a, b) == IF TruthyStr(a) THEN a ELSE b

\* AiraloErrorMessages[code]
AiraloErrorMessages(code) ==
    IF code.t # "number" THEN Undef
    ELSE CASE code.n = INSUFFICIENT_CREDIT  -> "Insufficient Airalo Credit"
           [] code.n = OPERATOR_MAINTENANCE -> "The requested operator is currently undergoing maintenance. Please try again later."
           [] code.n = INVALID_CHECKSUM     -> "Invalid checksum"
           [] code.n = TOPUP_DISABLED       -> "The requested top-up has been disabled by the operator"
           [] code.n = INSUFFICIENT_STOCK   -> "Insufficient stock of eSIMs remaining"
           [] code.n = PACKAGE_INVALID      -> "The requested eSIM package is invalid or it is currently out of stock. Please try again later."
           [] code.n = BAD_REQUEST          -> "Bad request"
           [] code.n = UNEXPECTED_ERROR     -> "Something unexpected happened. We're working to resolve the issue. Please try again later."
           [] OTHER                         -> Undef

(* ------------------------------- errors ------------------------------- *)
\* Every thrown value is a record of one shape.  kind tells the class; an
\* AiraloError has no response property, a transport failure has no code,
\* additionalInfo and statusCode properties.
NoResponse == [present |-> FALSE, status |-> NoStatus,
               data |-> [code |-> NoCode, additional_info |-> Undef, message |-> Undef]]

\* The failure the transport (axios) rejects with: error.response (status and
\* body) when the server answered, error.message always.
TransportError(status, code, additional_info, bodyMessage, message) ==
    [kind     |-> "TransportError",
     response |-> IF status = NoStatus THEN NoResponse
                  ELSE [present |-> TRUE, status |-> status,
                        data |-> [code |-> code, additional_info |-> additional_info,
                                  message |-> bodyMessage]],
     message  |-> <<message>>,
     code |-> NoCode, additionalInfo |-> Undef, statusCode |-> NoStatus]

\* new AiraloError(code, additionalInfo, statusCode): the message is the base
\* message of the code, followed by the additional info when that is truthy.
AiraloError(code, additionalInfo, statusCode) ==
    [kind     |-> "AiraloError",
     response |-> NoResponse,
     message  |-> IF TruthyStr(additionalInfo)
                  THEN <<AiraloErrorMessages(code), additionalInfo>>
                  ELSE <<AiraloErrorMessages(code)>>,
     code |-> code, additionalInfo |-> additionalInfo, statusCode |-> statusCode]

\* The default of the constructor's third parameter.
DefaultStatusCode == 422

\* error.response?.status
ResponseStatus(error) ==
    IF error.response.present THEN error.response.status ELSE NoStatus

\* handleAxiosError(error): the AiraloError it throws.
handleAxiosError(error) ==
    IF /\ ResponseStatus(error) = 422
       /\ TruthyCode(error.response.data.code)
       /\ ObjectValuesIncludes(error.response.data.code)
    THEN AiraloError(error.response.data.code,
                     StrOr(error.response.data.additional_info,
                           error.response.data.message),
                     DefaultStatusCode)
    ELSE AiraloError(NumCode(UNEXPECTED_ERROR), error.message[1],
                     IF ResponseStatus(error) # 0 THEN ResponseStatus(error) ELSE 500)


\* No error: the value of an error slot that holds nothing.
NoError ==
    [kind |-> "none", response |-> NoResponse, message |-> <<>>,
     code |-> NoCode, additionalInfo |-> Undef, statusCode |-> NoStatus]

(* ------------------------------- state -------------------------------- *)
VARIABLES
    transport,    \* what axios.create returned: "axios" runs the installed
                  \* response interceptors, "jestMock" (the test suite's
                  \* mockAxiosInstance) records them and never runs them,
                  \* "jestMockConcurrent" is that instance with calls made
                  \* together
    accessToken,  \* this.accessToken, NoToken when undefined
    pc,           \* position of each caller
    stack,        \* pending handleRequest invocations of each caller
    headers,      \* the token in the Authorization header the call built
    settled,      \* how the awaited request promise settled
    timer,        \* the pending setTimeout delay of each caller
    outcome,      \* how the caller's logical call ended
    calls,        \* logical calls started on the client
    hist,         \* what happened in the caller's current logical call
    everLoggedIn, \* some login of this client has completed successfully
    config,       \* the AiraloConfig the constructor was given
    past,         \* what earlier steps did: the token and expires_in of the
                  \* login processed last, whether a finished call used a
                  \* retry, and the method of the call finished last
    probe         \* input and result of a function of the client used on
                  \* its own

vars == <<transport, accessToken, pc, stack, headers, settled, timer, outcome,
          calls, hist, everLoggedIn, config, past, probe>>

\* One pending handleRequest(requestFn, retryCount): fn names the request of
\* requestFn.  The frame "getHeaders" stands for getHeaders awaiting
\* authenticate().
Frame(fn, retryCount) == [fn |-> fn, rc |-> retryCount]

Top(c) == stack[c][Len(stack[c])]
Pop(c) == SubSeq(stack[c], 1, Len(stack[c]) - 1)

NothingSettled ==
    [ok |-> TRUE, val |-> 0, expires_in |-> 0, err |-> NoError, status |-> NoStatus]
NoOutcome      == [st |-> "none", val |-> 0, err |-> NoError]

\* No login request sent yet.
NoLoginRequest == [method |-> "none", url |-> "", form |-> <<>>, headers |-> <<>>]

\* The record of one logical call: op the public method, held the token
\* field when the call began, lazy whether getHeaders found no token, sends the endpoint requests sent, logins the
\* login requests sent, resp the status of every answer to the endpoint
\* request (200 a success) and loginResp to the login request, payloads the
\* payload of every successful answer, reauths the times the 401 branch was
\* taken for the endpoint request, reauthRetries and backoffRetries the
\* loginReq the login request sent last,
\* resends of the endpoint request after a re-authentication and after a
\* delay, delays the delays taken, failures the failed transport attempts and
\* mapped the runs of handleAxiosError.
NewHist(op) ==
    [op |-> op, held |-> NoToken, lazy |-> FALSE, sends |-> 0, logins |-> 0, loginOks |-> 0,
     resp |-> <<>>, loginResp |-> <<>>, payloads |-> <<>>,
     reauths |-> 0, reauthRetries |-> 0, backoffRetries |-> 0,
     delays |-> <<>>, failures |-> 0, mapped |-> 0, loginReq |-> NoLoginRequest]

\* The transport failures the server and the network produce in a logical
\* call: no response at all, and a response of status 401, 429, 500 or 422
\* (the last with a known error code).
PipelineFailures ==
    {TransportError(NoStatus, NoCode, Undef, Undef, "Network Error"),
     TransportError(401, NoCode, Undef, "Unauthenticated", "Request failed with status code 401"),
     TransportError(429, NoCode, Undef, "Too Many Attempts", "Request failed with status code 429"),
     TransportError(500, NoCode, Undef, "Server Error", "Request failed with status code 500"),
     TransportError(422, NumCode(INSUFFICIENT_CREDIT), "top up", "Unprocessable", "Request failed with status code 422")}

\* Every shape of transport failure handleAxiosError can be given.
ProbeStatuses == {NoStatus, 400, 401, 404, 422, 429, 500, 503}
ProbeCodes ==
    {NoCode, TextCode, NumCode(0), NumCode(12), NumCode(99)}
        \cup {NumCode(n) : n \in AiraloErrorCode}
        \cup {NameCode(BAD_REQUEST), NameCode(UNEXPECTED_ERROR)}
ProbeStrings == {Undef, "", "text"}
ProbeFailures ==
    {TransportError(s, c, a, m, e) :
        s \in ProbeStatuses, c \in ProbeCodes, a \in ProbeStrings,
        m \in {Undef, "", "body message"}, e \in {Undef, "Network Error"}}

NoProbe == [in |-> NoError, out |-> NoError, done |-> FALSE]

\* The configuration of the client under study.
TheConfig ==
    [baseUrl |-> "https://partners-api.airalo.com",
     clientId |-> "client-id", clientSecret |-> "client-secret"]

NoPast ==
    [lastLogin |-> NoToken, expires_in |-> 0, retried |-> FALSE,
     lastOp |-> "none"]

\* The expires_in values the token endpoint answers with.
ExpiresIn == {0, 3600}

(* ----------------------------- the client ----------------------------- *)
\* constructor: the token is absent; the interceptor is installed on the
\* instance axios.create returned.
\* The fields of a client just constructed and its callers before any call.
Constructed ==
    /\ accessToken = NoToken
    /\ pc = [c \in Callers |-> "idle"]
    /\ stack = [c \in Callers |-> <<>>]
    /\ headers = [c \in Callers |-> NoToken]
    /\ settled = [c \in Callers |-> NothingSettled]
    /\ timer = [c \in Callers |-> 0]
    /\ outcome = [c \in Callers |-> NoOutcome]
    /\ calls = 0
    /\ hist = [c \in Callers |-> NewHist("none")]
    /\ everLoggedIn = FALSE
    /\ config = TheConfig
    /\ past = NoPast
    /\ probe = NoProbe

Init ==
    /\ transport \in {"axios", "jestMock"}
    /\ Constructed

\* Deliver with no rejected-response handler installed.
DeliverUnmapped(raw) == raw

\* The response interceptor chain of the instance: axios hands every failure
\* to handleAxiosError and rejects with what it throws; the mock instance of
\* the test suite rejects with the failure itself.
Deliver(raw) == IF transport = "axios" THEN handleAxiosError(raw) ELSE raw

\* NeedsLogin true whatever the token field holds.
NeedsLoginAlways == TRUE

\* NeedsLogin with the token check left out of getHeaders.
NeedsLoginNever == FALSE

\* getHeaders: is a login needed first.
NeedsLogin == accessToken = NoToken

\* ShouldReauth without the bound on retryCount.
ShouldReauthUnbounded(error, retryCount) == ResponseStatus(error) = 401

\* ShouldReauth without the test of the status.
ShouldReauthAnyFailure(error, retryCount) == retryCount < 1

\* handleRequest, catch: error.response?.status === 401 && retryCount < 1
ShouldReauth(error, retryCount) ==
    ResponseStatus(error) = 401 /\ retryCount < 1

\* ShouldBackoff reading the status of the mapped error as well.
ShouldBackoffOnStatusCode(error, retryCount) ==
    (ResponseStatus(error) = 429 \/ error.statusCode = 429) /\ retryCount < maxRetries

\* ShouldBackoff allowing one retry more.
ShouldBackoffInclusive(error, retryCount) ==
    ResponseStatus(error) = 429 /\ retryCount <= maxRetries

\* ShouldBackoff without the test of the status.
ShouldBackoffAnyFailure(error, retryCount) == retryCount < maxRetries

\* handleRequest, catch: error.response?.status === 429 && retryCount < this.maxRetries
ShouldBackoff(error, retryCount) ==
    ResponseStatus(error) = 429 /\ retryCount < maxRetries

\* BackoffDelay doubling from one retry to the next.
BackoffDelayDoubling(retryCount) == retryDelay * (2 ^ retryCount)

\* this.retryDelay * (retryCount + 1)
BackoffDelay(retryCount) == retryDelay * (retryCount + 1)

\* InitialRetryCount kept from the retries of earlier calls.
InitialRetryCountCarried == IF past.retried THEN 1 ELSE 0

\* handleRequest(requestFn, retryCount = 0): the counter a public method,
\* getHeaders and authenticate() start handleRequest with.
InitialRetryCount == 0

\* ClearedToken leaving the token in place.
ClearedTokenKept(token) == token

\* handleRequest, 401 branch: this.accessToken = undefined
ClearedToken(token) == NoToken

\* StoredToken keeping a token that is already held.
StoredTokenKeepFirst(current, received) ==
    IF current # NoToken THEN current ELSE received

\* authenticate: this.accessToken = response.data.access_token
StoredToken(current, received) == received

\* HeaderToken read before getHeaders awaited authenticate().
HeaderTokenBeforeLogin(c) == headers[c]

\* getHeaders: the token field as read when the header object is built.
HeaderToken(c) == accessToken

\* getHeaders: Authorization: `Bearer ${this.accessToken}`
Authorization(token) == <<"Bearer", token>>

\* The headers axios.create gave the instance: Accept only.
InstanceHeaders == [Accept |-> "application/json"]

\* LoginRequest sent with the Authorization header of the token held.
LoginRequestWithBearer ==
    [method |-> "POST", url |-> "/v2/token",
     form |-> <<<<"client_id", config.clientId>>,
                <<"client_secret", config.clientSecret>>,
                <<"grant_type", "client_credentials">>>>,
     headers |-> [Accept |-> "application/json",
                  Authorization |-> <<"Bearer", accessToken>>]]

\* authenticate: this.axiosInstance.post('/v2/token', formData) with the
\* form of client_id, client_secret and grant_type, and no request headers
\* beside those of the instance.
LoginRequest ==
    [method |-> "POST", url |-> "/v2/token",
     form |-> <<<<"client_id", config.clientId>>,
                <<"client_secret", config.clientSecret>>,
                <<"grant_type", "client_credentials">>>>,
     headers |-> InstanceHeaders]

\* requestFn() of a frame is invoked: the request goes out.
CountSend(h, fn) ==
    IF fn = "login"
    THEN [h EXCEPT !.logins = @ + 1, !.loginReq = LoginRequest]
    ELSE [h EXCEPT !.sends = @ + 1]

\* No caller is in the middle of a continuation.  What follows the settling
\* of an awaited promise (the try or catch block of handleRequest, the rest
\* of authenticate and getHeaders, the caller taking the result) runs as
\* promise jobs, which the event loop completes before it delivers another
\* response, fires a timer or lets a new call begin.
Quiet == \A d \in Callers : pc[d] \notin {"settled", "headers", "done", "below"}

\* An answer can be handled.  With the mock instance the answers are promises
\* settled beforehand, so when calls are made together ("jestMockConcurrent")
\* the reactions to them are promise jobs too and the jobs of the calls
\* alternate at every await; of these interleavings the model follows the one
\* at the await of getHeaders: the reaction to another call's answer, queued
\* before authenticate() returned, runs before the rest of getHeaders.
Settling ==
    \/ Quiet
    \/ /\ transport = "jestMockConcurrent"
       /\ \A d \in Callers : pc[d] \notin {"settled", "done", "below"}

\* Who calls the client.  A program using the library (transport "axios") may
\* have several calls in progress; the test suite awaits each call of
\* mockAxiosInstance's client before it makes the next: one caller; calls
\* made together on the mock instance are the transport "jestMockConcurrent".
MayCall(c) == transport # "jestMock" \/ c = 1

\* authenticate() called directly by the caller: the login request is sent.
StartAuthenticate(c) ==
    /\ pc[c] = "idle"
    /\ Quiet
    /\ MayCall(c)
    /\ calls < MaxCalls
    /\ calls' = calls + 1
    /\ stack' = [stack EXCEPT ![c] = <<Frame("login", InitialRetryCount)>>]
    /\ hist' = [hist EXCEPT ![c] =
                  CountSend([NewHist("authenticate") EXCEPT !.held = accessToken],
                            "login")]
    /\ outcome' = [outcome EXCEPT ![c] = NoOutcome]
    /\ headers' = [headers EXCEPT ![c] = NoToken]
    /\ pc' = [pc EXCEPT ![c] = "await"]
    /\ UNCHANGED <<transport, accessToken, settled, timer, everLoggedIn, config, past, probe>>

\* An endpoint method (getBalance and the others) is called: getHeaders runs;
\* without a token it calls authenticate(), which sends the login request;
\* with a token it builds the header and the method sends its request.
StartEndpoint(c) ==
    /\ pc[c] = "idle"
    /\ Quiet
    /\ MayCall(c)
    /\ calls < MaxCalls
    /\ calls' = calls + 1
    /\ outcome' = [outcome EXCEPT ![c] = NoOutcome]
    /\ IF NeedsLogin
       THEN /\ stack' = [stack EXCEPT ![c] =
                            <<Frame("getHeaders", 0), Frame("login", InitialRetryCount)>>]
            /\ hist' = [hist EXCEPT ![c] =
                          CountSend([NewHist("endpoint") EXCEPT
                                        !.lazy = TRUE, !.held = accessToken], "login")]
            /\ headers' = [headers EXCEPT ![c] = NoToken]
       ELSE /\ stack' = [stack EXCEPT ![c] = <<Frame("endpoint", InitialRetryCount)>>]
            /\ hist' = [hist EXCEPT ![c] =
                          CountSend([NewHist("endpoint") EXCEPT !.held = accessToken],
                                    "endpoint")]
            /\ headers' = [headers EXCEPT ![c] = HeaderToken(c)]
    /\ pc' = [pc EXCEPT ![c] = "await"]
    /\ UNCHANGED <<transport, accessToken, settled, timer, everLoggedIn, config, past, probe>>

\* The server answers the request in flight with a success: a token for the
\* login request, a payload for an endpoint request.
RespondSuccess(c) ==
    /\ pc[c] = "await"
    /\ Settling
    /\ \E v \in IF Top(c).fn = "login" THEN Tokens ELSE Payloads,
          e \in IF Top(c).fn = "login" THEN ExpiresIn ELSE {0} :
          /\ settled' = [settled EXCEPT ![c] =
                            [ok |-> TRUE, val |-> v, expires_in |-> e,
                             err |-> NoError, status |-> 200]]
          /\ hist' = [hist EXCEPT ![c] =
                        IF Top(c).fn = "login"
                        THEN [@ EXCEPT !.loginResp = Append(@, 200)]
                        ELSE [@ EXCEPT !.resp = Append(@, 200),
                                       !.payloads = Append(@, v)]]
    /\ pc' = [pc EXCEPT ![c] = "settled"]
    /\ UNCHANGED <<transport, accessToken, stack, headers, timer, outcome, calls,
                   everLoggedIn, config, past, probe>>

\* The request in flight fails: the promise is rejected with what the
\* interceptor chain delivers.
RespondFailure(c) ==
    /\ pc[c] = "await"
    /\ Settling
    /\ \E raw \in PipelineFailures :
          LET error == Deliver(raw) IN
          \* bound: the login endpoint stops answering 401 at depth MaxDepth
          /\ ~(ShouldReauth(error, Top(c).rc) /\ Len(stack[c]) >= MaxDepth)
          /\ settled' = [settled EXCEPT ![c] =
                            [ok |-> FALSE, val |-> 0, expires_in |-> 0, err |-> error,
                             status |-> ResponseStatus(raw)]]
          /\ hist' = [hist EXCEPT ![c] =
                        [IF Top(c).fn = "login"
                         THEN [@ EXCEPT !.loginResp = Append(@, ResponseStatus(raw))]
                         ELSE [@ EXCEPT !.resp = Append(@, ResponseStatus(raw))]
                         EXCEPT !.failures = @ + 1,
                                !.mapped = IF error.kind = "AiraloError" THEN @ + 1 ELSE @]]
    /\ pc' = [pc EXCEPT ![c] = "settled"]
    /\ UNCHANGED <<transport, accessToken, stack, headers, timer, outcome, calls,
                   everLoggedIn, config, past, probe>>


\* The logical call of c ends: every pending invocation is left.
Finish(c, result) ==
    /\ outcome' = [outcome EXCEPT ![c] = result]
    /\ stack' = [stack EXCEPT ![c] = <<>>]
    /\ pc' = [pc EXCEPT ![c] = "done"]

\* NextRetryCount that passes the counter on as it is.
NextRetryCountSame(retryCount) == retryCount

\* The attempt counter a retry is given, after a re-authentication and after
\* a delay alike: retryCount + 1.
NextRetryCount(retryCount) == retryCount + 1

\* handleRequest(requestFn, retryCount + 1) of the frame below the login that
\* just returned, or of the frame whose delay elapsed: requestFn() is invoked
\* again, with the headers the call built before its first attempt.
Resend(c, frames, h) ==
    LET f == frames[Len(frames)] IN
    /\ stack' = [stack EXCEPT ![c] =
                    [frames EXCEPT ![Len(frames)] = Frame(f.fn, NextRetryCount(f.rc))]]
    /\ hist' = [hist EXCEPT ![c] = CountSend(h, f.fn)]
    /\ pc' = [pc EXCEPT ![c] = "await"]

\* handleRequest, try: the request succeeded and response.data is returned.
\* For an endpoint request that ends the logical call.  For the login request
\* authenticate() stores the token and returns to its caller: the public
\* caller, getHeaders, or the catch block of a handleRequest, which retries.
HandleRequestReturn(c) ==
    /\ pc[c] = "settled"
    /\ settled[c].ok
    /\ settled' = [settled EXCEPT ![c] = NothingSettled]
    /\ IF Top(c).fn # "login"
       THEN /\ Finish(c, [st |-> "ok", val |-> settled[c].val, err |-> NoError])
            /\ UNCHANGED <<accessToken, everLoggedIn, past, hist>>
       ELSE /\ accessToken' = StoredToken(accessToken, settled[c].val)
            /\ everLoggedIn' = TRUE
            /\ past' = [past EXCEPT !.lastLogin = settled[c].val,
                                    !.expires_in = settled[c].expires_in]
            /\ LET h == [hist[c] EXCEPT !.loginOks = @ + 1] IN
               IF Pop(c) = <<>>
               THEN /\ Finish(c, [st |-> "ok", val |-> 0, err |-> NoError])
                    /\ hist' = [hist EXCEPT ![c] = h]
               ELSE IF Pop(c)[Len(Pop(c))].fn = "getHeaders"
               THEN /\ stack' = [stack EXCEPT ![c] = Pop(c)]
                    /\ hist' = [hist EXCEPT ![c] = h]
                    /\ pc' = [pc EXCEPT ![c] = "headers"]
                    /\ UNCHANGED outcome
               ELSE /\ Resend(c, Pop(c),
                              IF Pop(c)[Len(Pop(c))].fn = "endpoint"
                              THEN [h EXCEPT !.reauthRetries = @ + 1] ELSE h)
                    /\ UNCHANGED outcome
    /\ UNCHANGED <<transport, config, headers, timer, calls, probe>>

\* getHeaders resumes after authenticate(): the header is built from the
\* token field as it is now, and the endpoint method sends its request.
GetHeadersReturn(c) ==
    /\ pc[c] = "headers"
    /\ headers' = [headers EXCEPT ![c] = HeaderToken(c)]
    /\ stack' = [stack EXCEPT ![c] = <<Frame("endpoint", InitialRetryCount)>>]
    /\ hist' = [hist EXCEPT ![c] = CountSend(@, "endpoint")]
    /\ pc' = [pc EXCEPT ![c] = "await"]
    /\ UNCHANGED <<transport, accessToken, settled, timer, outcome, calls,
                   everLoggedIn, config, past, probe>>

\* handleRequest, catch.  401 on the first attempt: the token is cleared and
\* authenticate() sends a login request.  429 with retries left: a timer is
\* set.  Otherwise the error is rethrown: nothing above catches it, so the
\* logical call ends with it.
HandleRequestCatch(c) ==
    /\ pc[c] = "settled"
    /\ ~settled[c].ok
    /\ settled' = [settled EXCEPT ![c] = NothingSettled]
    /\ IF ShouldReauth(settled[c].err, Top(c).rc)
       THEN /\ accessToken' = ClearedToken(accessToken)
            /\ stack' = [stack EXCEPT ![c] = Append(@, Frame("login", InitialRetryCount))]
            /\ hist' = [hist EXCEPT ![c] =
                          CountSend(IF Top(c).fn = "endpoint"
                                    THEN [@ EXCEPT !.reauths = @ + 1] ELSE @, "login")]
            /\ pc' = [pc EXCEPT ![c] = "await"]
            /\ UNCHANGED <<timer, outcome>>
       ELSE IF ShouldBackoff(settled[c].err, Top(c).rc)
       THEN /\ timer' = [timer EXCEPT ![c] = BackoffDelay(Top(c).rc)]
            /\ hist' = [hist EXCEPT ![c] =
                          IF Top(c).fn = "endpoint"
                          THEN [@ EXCEPT !.delays = Append(@, BackoffDelay(Top(c).rc))]
                          ELSE @]
            /\ pc' = [pc EXCEPT ![c] = "delay"]
            /\ UNCHANGED <<accessToken, stack, outcome>>
       ELSE /\ Finish(c, [st |-> "fail", val |-> 0, err |-> settled[c].err])
            /\ UNCHANGED <<accessToken, timer, hist>>
    /\ UNCHANGED <<transport, headers, calls, everLoggedIn, config, past, probe>>

\* The delay before a 429 retry elapses: the request is sent again.
TimerFires(c) ==
    /\ pc[c] = "delay"
    /\ Quiet
    /\ timer' = [timer EXCEPT ![c] = 0]
    /\ Resend(c, stack[c],
              IF Top(c).fn = "endpoint"
              THEN [hist[c] EXCEPT !.backoffRetries = @ + 1] ELSE hist[c])
    /\ UNCHANGED <<transport, accessToken, headers, settled, outcome, calls,
                   everLoggedIn, config, past, probe>>

\* The caller takes the result of its finished call: the promise of the
\* public method has settled and the caller goes on.
Return(c) ==
    /\ pc[c] = "done"
    /\ pc' = [pc EXCEPT ![c] = "idle"]
    /\ hist' = [hist EXCEPT ![c] = NewHist("none")]
    /\ outcome' = [outcome EXCEPT ![c] = NoOutcome]
    /\ headers' = [headers EXCEPT ![c] = NoToken]
    /\ past' = [past EXCEPT
                    !.retried = @ \/ hist[c].reauthRetries + hist[c].backoffRetries > 0,
                    !.lastOp = hist[c].op]
    /\ UNCHANGED <<transport, config, accessToken, stack, settled, timer, calls,
                   everLoggedIn, probe>>

Next ==
    \E c \in Callers :
        \/ StartAuthenticate(c)
        \/ StartEndpoint(c)
        \/ RespondSuccess(c)
        \/ RespondFailure(c)
        \/ HandleRequestReturn(c)
        \/ GetHeadersReturn(c)
        \/ HandleRequestCatch(c)
        \/ TimerFires(c)
        \/ Return(c)

Spec == Init /\ [][Next]_vars

(* ------------------ the login request answered 401 -------------------- *)
\* authenticate() sends its login request through handleRequest with the
\* default counter 0, so a 401 answered to it takes the 401 branch: the token
\* is cleared and authenticate() is called again, one invocation deeper, and
\* that one starts with counter 0 as well.  `stack` records MaxDepth
\* invocations; here the chain goes on below them: the innermost recorded
\* invocation stands for the innermost real one (a login request with
\* counter 0 in flight), the invocations between are not recorded and the
\* requests they send are not counted in `hist`.

\* The login request of the innermost invocation is answered 401.
LoginRejectedBelow(c) ==
    /\ pc[c] = "await"
    /\ Quiet
    /\ Len(stack[c]) = MaxDepth
    /\ Top(c).fn = "login"
    /\ \E raw \in PipelineFailures :
          /\ ResponseStatus(raw) = 401
          /\ ShouldReauth(Deliver(raw), Top(c).rc)
    /\ pc' = [pc EXCEPT ![c] = "below"]
    /\ UNCHANGED <<transport, accessToken, stack, headers, settled, timer, outcome,
                   calls, hist, everLoggedIn, config, past, probe>>

\* handleRequest, catch, 401 branch of that invocation: the token is cleared
\* and authenticate() sends the next login request.
ReauthBelow(c) ==
    /\ pc[c] = "below"
    /\ accessToken' = ClearedToken(accessToken)
    /\ pc' = [pc EXCEPT ![c] = "await"]
    /\ UNCHANGED <<transport, stack, headers, settled, timer, outcome, calls, hist,
                   everLoggedIn, config, past, probe>>

\* The client where handleRequest sees the status of a failure.
ChainInit == Init /\ transport = "jestMock"

ChainNext ==
    \/ Next
    \/ \E c \in Callers : LoginRejectedBelow(c)
    \/ \E c \in Callers : ReauthBelow(c)

\* Every request is answered, every continuation of an await runs, every
\* timer fires, and the caller takes the result of a finished call.
Answered ==
    \E c \in Callers : RespondSuccess(c) \/ RespondFailure(c) \/ LoginRejectedBelow(c)
Continued ==
    \E c \in Callers :
        \/ HandleRequestReturn(c)
        \/ GetHeadersReturn(c)
        \/ HandleRequestCatch(c)
        \/ ReauthBelow(c)
        \/ Return(c)
Elapsed == \E c \in Callers : TimerFires(c)

ChainSpec ==
    /\ ChainInit
    /\ [][ChainNext]_vars
    /\ WF_vars(Answered)
    /\ WF_vars(Continued)
    /\ WF_vars(Elapsed)

(* ------------- calls made together, the status visible ----------------- *)
\* Several calls in progress on a client whose handleRequest sees the status
\* of a failure: the mock instance, with calls that are not awaited one by
\* one.
RaceInit == transport = "jestMockConcurrent" /\ Constructed

\* bound: the answers followed here are a success (the first payload for an
\* endpoint request, a token with the first expiry for the login request),
\* 401 and 429, with at most MaxRaceFailures failures answered to a call.
RaceAnswers ==
    \A c \in Callers :
        IF settled[c].ok
        THEN /\ settled[c].expires_in = 0
             /\ settled[c].status = 200 /\ Top(c).fn # "login" => settled[c].val = 1
        ELSE /\ settled[c].status \in {401, 429}
             /\ hist[c].failures <= MaxRaceFailures

RaceNext ==
    \E c \in Callers :
        \/ StartAuthenticate(c)
        \/ StartEndpoint(c)
        \/ RespondSuccess(c) /\ RaceAnswers'
        \/ RespondFailure(c) /\ RaceAnswers'
        \/ HandleRequestReturn(c)
        \/ GetHeadersReturn(c)
        \/ HandleRequestCatch(c)
        \/ TimerFires(c)
        \/ Return(c)

RaceSpec == RaceInit /\ [][RaceNext]_vars

(* ------------------- handleAxiosError on its own ---------------------- *)
\* The interceptor is given one transport failure of any shape.
ProbeInit ==
    /\ transport = "axios"
    /\ accessToken = NoToken
    /\ pc = [c \in Callers |-> "idle"]
    /\ stack = [c \in Callers |-> <<>>]
    /\ headers = [c \in Callers |-> NoToken]
    /\ settled = [c \in Callers |-> NothingSettled]
    /\ timer = [c \in Callers |-> 0]
    /\ outcome = [c \in Callers |-> NoOutcome]
    /\ calls = 0
    /\ hist = [c \in Callers |-> NewHist("none")]
    /\ everLoggedIn = FALSE
    /\ config = TheConfig
    /\ past = NoPast
    /\ \E raw \in ProbeFailures : probe = [in |-> raw, out |-> NoError, done |-> FALSE]

\* The rejected-response handler of the constructor runs on the failure.
Intercept ==
    /\ ~probe.done
    /\ probe' = [probe EXCEPT !.out = handleAxiosError(probe.in), !.done = TRUE]
    /\ UNCHANGED <<transport, accessToken, pc, stack, headers, settled, timer,
                   outcome, calls, hist, everLoggedIn, config, past>>

ProbeNext == Intercept

ProbeSpec == ProbeInit /\ [][ProbeNext]_vars


(* ----------------------- getOrders on its own ------------------------- *)
\* JavaScript values of the parameters: absent, a string, a number.
Undefined == [t |-> "undefined", s |-> "", n |-> 0]
Str(s)    == [t |-> "string", s |-> s, n |-> 0]
Num(n)    == [t |-> "number", s |-> "", n |-> n]

\* AiraloOrderListParams: every field is optional.
OrderListParams ==
    [include     : {Undefined, Str("sims")},
     createdAt   : {Undefined, Str("2024-01-01 - 2024-01-31")},
     orderStatus : {Undefined, Str("completed"), Str("failed")},
     description : {Undefined, Str(""), Str("note")},
     limit       : {Undefined, Num(0), Num(10)},
     page        : {Undefined, Num(1), Num(2)}]

\* getOrdersParams with the two filters on status and description exchanged.
getOrdersParamsSwapped(params) ==
    ("include" :> params.include)
        @@ ("filter[created_at]" :> params.createdAt)
        @@ ("filter[order_status]" :> params.description)
        @@ ("filter[description]" :> params.orderStatus)
        @@ ("limit" :> params.limit)
        @@ ("page" :> params.page)

\* getOrders: the params object handed to axiosInstance.get.
getOrdersParams(params) ==
    ("include" :> params.include)
        @@ ("filter[created_at]" :> params.createdAt)
        @@ ("filter[order_status]" :> params.orderStatus)
        @@ ("filter[description]" :> params.description)
        @@ ("limit" :> params.limit)
        @@ ("page" :> params.page)

\* The query axios puts on the wire for a params object: one entry for every
\* key whose value is not undefined.
WireQuery(params) ==
    {<<k, params[k]>> : k \in {x \in DOMAIN params : params[x] # Undefined}}

NoRequest == [method |-> "none", url |-> "", params |-> <<>>]

\* A caller is about to call getOrders with some parameters.
OrdersInit ==
    /\ transport = "axios"
    /\ accessToken = NoToken
    /\ pc = [c \in Callers |-> "idle"]
    /\ stack = [c \in Callers |-> <<>>]
    /\ headers = [c \in Callers |-> NoToken]
    /\ settled = [c \in Callers |-> NothingSettled]
    /\ timer = [c \in Callers |-> 0]
    /\ outcome = [c \in Callers |-> NoOutcome]
    /\ calls = 0
    /\ hist = [c \in Callers |-> NewHist("none")]
    /\ everLoggedIn = FALSE
    /\ config = TheConfig
    /\ past = NoPast
    /\ \E params \in OrderListParams :
          probe = [in |-> params, out |-> NoRequest, done |-> FALSE]

\* getOrders builds its request.
getOrders ==
    /\ ~probe.done
    /\ probe' = [probe EXCEPT
                    !.out = [method |-> "GET", url |-> "/v2/orders",
                             params |-> getOrdersParams(probe.in)],
                    !.done = TRUE]
    /\ UNCHANGED <<transport, accessToken, pc, stack, headers, settled, timer,
                   outcome, calls, hist, everLoggedIn, config, past>>

OrdersNext == getOrders

OrdersSpec == OrdersInit /\ [][OrdersNext]_vars


(* ------------------ the multipart bodies on their own ----------------- *)
\* Number.prototype.toString of a natural number: its decimal digits.
Digits == <<"0", "1", "2", "3", "4", "5", "6", "7", "8", "9">>
RECURSIVE NumberToString(_)
NumberToString(n) ==
    IF n < 10 THEN Digits[n + 1]
    ELSE NumberToString(n \div 10) \o Digits[(n % 10) + 1]

\* The string FormData.append stores for a value.
FormString(v) ==
    CASE v.t = "string" -> v.s
      [] v.t = "number" -> NumberToString(v.n)
      [] OTHER -> "undefined"

\* Truthy testing only that the value is supplied.
TruthySupplied(v) == v # Undefined

\* if (value): undefined, the empty string and 0 are falsy.
Truthy(v) == v # Undefined /\ v # Str("") /\ v # Num(0)

\* if (value) { formData.append(name, value) }
AppendIf(form, name, v) ==
    IF Truthy(v) THEN Append(form, <<name, FormString(v)>>) ELSE form

\* The values a caller gives an optional string field: none, "", a text.
OptionalText(text) == {Undefined, Str(""), Str(text)}

\* The type a caller gives an order: 'sim', or none, as the order objects of
\* the README and of the test suite, which have no type field.
OrderType == {Str("sim"), Undefined}

\* AiraloOrderCreateParams and AiraloOrderAsyncParams; callback_url is
\* handled by createAsyncOrder like the optional fields.
OrderCreateParams ==
    [quantity : {Num(1), Num(12)},
     package_id : {Str("kallur-digital-7days-1gb")},
     type : OrderType,
     description : OptionalText("order note"),
     brand_settings_name : OptionalText("our brand"),
     webhook_url : OptionalText("https://example.com/hook")]
OrderAsyncParams ==
    [quantity : {Num(1), Num(12)},
     package_id : {Str("kallur-digital-7days-1gb")},
     type : OrderType,
     description : OptionalText("order note"),
     brand_settings_name : OptionalText("our brand"),
     webhook_url : OptionalText("https://example.com/hook"),
     callback_url : OptionalText("https://example.com/done")]
\* AiraloTopupOrderParams
TopupOrderParams ==
    [iccid : {Str("8944465400000267221")},
     package_id : {Num(7), Num(305)},
     description : OptionalText("topup note")]
\* The arguments of updateSIMBrand.
SIMBrandParams ==
    [iccid : {Str("8944465400000267221")},
     brand_settings_name : OptionalText("our brand")]

FormCalls ==
    {[op |-> "createOrder", data |-> d] : d \in OrderCreateParams}
        \cup {[op |-> "createAsyncOrder", data |-> d] : d \in OrderAsyncParams}
        \cup {[op |-> "createTopupOrder", data |-> d] : d \in TopupOrderParams}
        \cup {[op |-> "updateSIMBrand", data |-> d] : d \in SIMBrandParams}

\* createOrder and createAsyncOrder: the fields appended first.
OrderForm(orderData) ==
    AppendIf(
        AppendIf(
            AppendIf(<<<<"quantity", NumberToString(orderData.quantity.n)>>,
                       <<"package_id", FormString(orderData.package_id)>>,
                       <<"type", FormString(orderData.type)>>>>,
                     "description", orderData.description),
            "brand_settings_name", orderData.brand_settings_name),
        "webhook_url", orderData.webhook_url)

\* The caller is about to call one of the four methods.
FormsInit ==
    /\ transport = "axios"
    /\ accessToken = NoToken
    /\ pc = [c \in Callers |-> "idle"]
    /\ stack = [c \in Callers |-> <<>>]
    /\ headers = [c \in Callers |-> NoToken]
    /\ settled = [c \in Callers |-> NothingSettled]
    /\ timer = [c \in Callers |-> 0]
    /\ outcome = [c \in Callers |-> NoOutcome]
    /\ calls = 0
    /\ hist = [c \in Callers |-> NewHist("none")]
    /\ everLoggedIn = FALSE
    /\ config = TheConfig
    /\ past = NoPast
    /\ \E call \in FormCalls :
          probe = [in |-> call, out |-> NoRequest, done |-> FALSE]

\* The method has built the request it hands to handleRequest.
Built(op, method, url, form) ==
    /\ ~probe.done
    /\ probe.in.op = op
    /\ probe' = [probe EXCEPT
                    !.out = [method |-> method, url |-> url, form |-> form],
                    !.done = TRUE]
    /\ UNCHANGED <<transport, accessToken, pc, stack, headers, settled, timer,
                   outcome, calls, hist, everLoggedIn, config, past>>

createOrder ==
    Built("createOrder", "POST", "/v2/orders", OrderForm(probe.in.data))

createAsyncOrder ==
    Built("createAsyncOrder", "POST", "/v2/orders-async",
          AppendIf(OrderForm(probe.in.data),
                   "callback_url", probe.in.data.callback_url))

createTopupOrder ==
    Built("createTopupOrder", "POST", "/v2/orders/topups",
          AppendIf(<<<<"iccid", FormString(probe.in.data.iccid)>>,
                     <<"package_id", NumberToString(probe.in.data.package_id.n)>>>>,
                   "description", probe.in.data.description))

updateSIMBrand ==
    Built("updateSIMBrand", "PUT",
          "/v2/sims/" \o probe.in.data.iccid.s \o "/brand",
          AppendIf(<<>>, "brand_settings_name", probe.in.data.brand_settings_name))

FormsNext ==
    \/ createOrder
    \/ createAsyncOrder
    \/ createTopupOrder
    \/ updateSIMBrand

FormsSpec == FormsInit /\ [][FormsNext]_vars


(* ============================== claims ================================ *)
Done(c)    == pc[c] = "done"
Failed(c)  == pc[c] = "done" /\ outcome[c].st = "fail"
Returned(c) == pc[c] = "done" /\ outcome[c].st = "ok"
\* The client is the one the constructor builds over axios.
Shipped    == transport = "axios"
All429(s)  == \A i \in 1..Len(s) : s[i] = 429

\* C1: a logical call whose first attempt is answered 401 (and whose logins
\* all succeed) re-authenticates exactly once and retries the request once
\* for it; a second 401 ends the call with a failure after two sends.
C1_ReauthOnceOnFirst401 ==
    \A c \in Callers :
        (/\ Done(c)
         /\ hist[c].op = "endpoint"
         /\ Len(hist[c].resp) >= 1
         /\ hist[c].resp[1] = 401
         /\ hist[c].loginOks = hist[c].logins)
        => /\ hist[c].reauths = 1
           /\ hist[c].reauthRetries = 1
           /\ (Len(hist[c].resp) >= 2 /\ hist[c].resp[2] = 401
                  => /\ Failed(c)
                     /\ Len(hist[c].resp) = 2
                     /\ hist[c].sends = 2)

\* C2: a call answered 429 on its first k <= 3 attempts does not end there,
\* and when attempt k + 1 succeeds the call returns that attempt's payload
\* after exactly k + 1 sends.
C2_SuccessAfterRateLimits ==
    \A c \in Callers :
        hist[c].op = "endpoint" =>
            /\ (All429(hist[c].resp) /\ Len(hist[c].resp) \in 1..maxRetries)
                  => ~Failed(c)
            /\ (/\ Returned(c)
                /\ All429(SubSeq(hist[c].resp, 1, Len(hist[c].resp) - 1)))
                  => /\ Len(hist[c].resp) <= maxRetries + 1
                     /\ outcome[c].val = hist[c].payloads[1]
                     /\ hist[c].sends = Len(hist[c].resp)

\* C3: a call answered 429 on every attempt sends the request exactly 4
\* times before the failure reaches the caller, and never a 5th time.
C3_FourSendsThenFail ==
    \A c \in Callers :
        (hist[c].op = "endpoint" /\ hist[c].resp # <<>> /\ All429(hist[c].resp))
        => /\ hist[c].sends <= maxRetries + 1
           /\ Failed(c) => hist[c].sends = maxRetries + 1

C5_LoginBeforeRequest ==
    \A c \in Callers :
        /\ hist[c].sends > 0 => everLoggedIn
        /\ (hist[c].lazy /\ hist[c].sends > 0) => hist[c].loginOks >= 1
        /\ (hist[c].lazy /\ hist[c].loginOks = 0) => headers[c] = NoToken

\* C5 witness: a call that found no token has logged in and sent its request.
C5_Witness ==
    \E c \in Callers :
        /\ hist[c].lazy
        /\ hist[c].loginOks = 1
        /\ hist[c].sends = 1
        /\ pc[c] = "await"
        /\ headers[c] # NoToken

\* The error codes of the contract's table other than the catch-all.
KnownCodes ==
    {INSUFFICIENT_CREDIT, OPERATOR_MAINTENANCE, INVALID_CHECKSUM, TOPUP_DISABLED,
     INSUFFICIENT_STOCK, PACKAGE_INVALID, BAD_REQUEST}

ProbeKnown ==
    /\ probe.done
    /\ ResponseStatus(probe.in) = 422
    /\ probe.in.response.data.code \in {NumCode(n) : n \in KnownCodes}

\* C6 as stated: status 422 and a known code give a domain error of that
\* code whose additional info is the body's additional_info when present,
\* else the body's message.
C6_AdditionalInfoWhenPresent ==
    ProbeKnown =>
        /\ probe.out.kind = "AiraloError"
        /\ probe.out.code = probe.in.response.data.code
        /\ probe.out.additionalInfo =
              IF probe.in.response.data.additional_info # Undef
              THEN probe.in.response.data.additional_info
              ELSE probe.in.response.data.message

\* C6 amended: status 422 and a known code give a domain error of that code
\* whose additional info is the body's additional_info when that is present
\* and not the empty string, else the body's message.
C6_AdditionalInfoWhenNonEmpty ==
    ProbeKnown =>
        /\ probe.out.kind = "AiraloError"
        /\ probe.out.code = probe.in.response.data.code
        /\ probe.out.additionalInfo =
              IF probe.in.response.data.additional_info \notin {Undef, ""}
              THEN probe.in.response.data.additional_info
              ELSE probe.in.response.data.message

\* C6 witness: a 422 with code 43 and an additional_info has been mapped.
C6_Witness ==
    /\ ProbeKnown
    /\ probe.in.response.data.code = NumCode(BAD_REQUEST)
    /\ probe.in.response.data.additional_info = "text"
    /\ probe.in.response.data.message = "body message"
    /\ probe.out.additionalInfo = "text"

\* C7: every failure that is not a 422 with a known code gives a domain
\* error with code 53 and the failure's status, or 500 when it has none.
C7_CatchAll ==
    (probe.done /\ ~ProbeKnown) =>
        /\ probe.out.kind = "AiraloError"
        /\ probe.out.code = NumCode(UNEXPECTED_ERROR)
        /\ probe.out.statusCode =
              IF probe.in.response.present THEN probe.in.response.status ELSE 500

\* C8: on the shipped client every failed transport attempt is mapped once,
\* a rejected request is rejected with an AiraloError, and every failure that
\* ends a logical call is an AiraloError.
C8_EveryFailureMapped ==
    Shipped =>
        \A c \in Callers :
            /\ hist[c].mapped = hist[c].failures
            /\ (pc[c] = "settled" /\ ~settled[c].ok) => settled[c].err.kind = "AiraloError"
            /\ Failed(c) => outcome[c].err.kind = "AiraloError"

\* C8 witness: a call has failed on a 422 carrying code 11 and the caller
\* holds the mapped error.
C8_Witness ==
    /\ Shipped
    /\ \E c \in Callers :
          /\ Failed(c)
          /\ hist[c].failures = 1
          /\ hist[c].resp = <<422>>
          /\ outcome[c].err.code = NumCode(INSUFFICIENT_CREDIT)

\* C9: when an endpoint request fails with a status other than 401 and 429,
\* or with none, the catch block ends the call with that error at once: no
\* request or login is sent, no delay is set, the token field is unchanged;
\* when this is the first attempt the request was sent exactly once.
C9_OtherFailurePropagates ==
    /\ [][\A c \in Callers :
            (/\ pc[c] = "settled"
             /\ ~settled[c].ok
             /\ Top(c).fn = "endpoint"
             /\ settled[c].status \notin {401, 429}
             /\ pc'[c] # "settled")
            => /\ pc'[c] = "done"
               /\ outcome'[c].st = "fail"
               /\ outcome'[c].err = settled[c].err
               /\ hist'[c] = hist[c]
               /\ timer'[c] = timer[c]
               /\ accessToken' = accessToken]_vars
    /\ [](\A c \in Callers :
            (/\ Done(c)
             /\ hist[c].resp # <<>>
             /\ hist[c].resp[1] \notin {200, 401, 429})
            => /\ Failed(c)
               /\ hist[c].sends = 1
               /\ hist[c].resp = <<hist[c].resp[1]>>
               /\ hist[c].reauths = 0
               /\ hist[c].delays = <<>>)

\* C9 witness: a call whose first attempt was answered 500 has failed after
\* one send.
C9_Witness ==
    \E c \in Callers :
        /\ Failed(c)
        /\ hist[c].resp = <<500>>
        /\ hist[c].sends = 1

\* C10: in one logical call the endpoint request is retried at most once
\* after a re-authentication and at most maxRetries times after a delay.
C10_RetryBudgets ==
    \A c \in Callers :
        /\ hist[c].reauths <= 1
        /\ hist[c].reauthRetries <= 1
        /\ hist[c].backoffRetries <= maxRetries
        /\ Len(hist[c].delays) <= maxRetries

\* C10 witness: one call has used a re-authentication retry and two
\* rate-limit retries.
C10_Witness ==
    \E c \in Callers :
        /\ hist[c].reauthRetries = 1
        /\ hist[c].backoffRetries = 2

\* The catch block of handleRequest runs for caller c in this step.
Catches(c) == pc[c] = "settled" /\ ~settled[c].ok /\ pc'[c] # "settled"
\* The try block of handleRequest returns for caller c in this step.
Returns(c) == pc[c] = "settled" /\ settled[c].ok /\ pc'[c] # "settled"
\* The step ends the logical call of c with a failure.
Propagates(c) == pc'[c] = "done" /\ outcome'[c].st = "fail"

C12_TokenTransitions ==
    [][/\ accessToken' # accessToken
          => \E c \in Callers :
                \/ /\ Returns(c)
                   /\ Top(c).fn = "login"
                   /\ accessToken' = settled[c].val
                \/ /\ Catches(c)
                   /\ settled[c].status = 401
                   /\ Top(c).rc = 0
                   /\ accessToken' = NoToken
       /\ config' = config]_vars

\* The token of a login was stored and a 401 has cleared it since.
C12_Witness ==
    /\ past.lastLogin # NoToken
    /\ accessToken = NoToken
    /\ config = TheConfig
    /\ \E c \in Callers : hist[c].reauths = 1

Range(s) == {s[i] : i \in 1..Len(s)}
\* Caller c takes a step.
Steps(c) == pc'[c] # pc[c]
\* Caller c sends the first attempt of its endpoint request in this step.
SendsFirstAttempt(c) ==
    /\ pc[c] \in {"idle", "headers"}
    /\ pc'[c] = "await"
    /\ stack'[c][Len(stack'[c])].fn = "endpoint"

\* C14: an endpoint call that began with a token held and was answered no
\* 401 sends no login request, none of its steps changes the token field,
\* and when it ends the field still holds the token of the login processed
\* last, whatever expires_in that login returned.
C14_TokenCachedWithoutExpiry ==
    /\ [](\A c \in Callers :
            (/\ hist[c].op = "endpoint"
             /\ hist[c].held # NoToken
             /\ 401 \notin Range(hist[c].resp))
            => /\ ~hist[c].lazy
               /\ hist[c].logins = 0
               /\ hist[c].loginResp = <<>>
               /\ Done(c) => accessToken = past.lastLogin)
    /\ [][\A c \in Callers :
            (/\ Steps(c)
             /\ hist[c].op = "endpoint"
             /\ hist[c].held # NoToken
             /\ 401 \notin Range(hist[c].resp))
            => accessToken' = accessToken]_vars

\* The second call of the client has succeeded on the token of a login that
\* returned expires_in 0, without a login request of its own.
C14_Witness ==
    \E c \in Callers :
        /\ Returned(c)
        /\ calls = 2
        /\ hist[c].op = "endpoint"
        /\ hist[c].held # NoToken
        /\ hist[c].logins = 0
        /\ hist[c].sends = 1
        /\ headers[c] = accessToken
        /\ past.expires_in = 0

\* C15: the first attempt of every endpoint call carries Authorization
\* "Bearer " followed by the token field as it is when the call builds its
\* headers, and a token held then is the token of the login processed last;
\* the login a call waited for in getHeaders has stored the token of its
\* response.
C15_BearerOfStoredToken ==
    [][\A c \in Callers :
          /\ SendsFirstAttempt(c)
             => /\ Authorization(headers'[c]) = <<"Bearer", accessToken>>
                /\ accessToken # NoToken => headers'[c] = past.lastLogin
          /\ (Returns(c) /\ Top(c).fn = "login")
             => accessToken' = settled[c].val]_vars

\* A call that had to log in first has sent its request with the token of
\* that login, the second of the token values.
C15_Witness ==
    \E c \in Callers :
        /\ pc[c] = "await"
        /\ Top(c) = Frame("endpoint", 0)
        /\ hist[c].lazy
        /\ hist[c].loginOks = 1
        /\ headers[c] = 2
        /\ accessToken = 2
        /\ past.lastLogin = 2

\* C16: in an endpoint call whose failures are all 429 the n-th delay is
\* retryDelay * n, that is 1000, 2000, 3000; the delays increase strictly;
\* the n-th retry is sent only after the n-th delay was taken and elapsed.
C16_LinearBackoff ==
    \A c \in Callers :
        (/\ hist[c].op = "endpoint"
         /\ Range(hist[c].resp) \subseteq {200, 429}
         /\ Range(hist[c].loginResp) \subseteq {200})
        => LET ds == hist[c].delays IN
           /\ Len(ds) <= 3
           /\ \A n \in 1..Len(ds) :
                 /\ ds[n] = retryDelay * n
                 /\ ds[n] = 1000 * n
                 /\ n > 1 => ds[n] > ds[n - 1]
           /\ IF pc[c] = "delay"
              THEN /\ hist[c].backoffRetries = Len(ds) - 1
                   /\ timer[c] = ds[Len(ds)]
              ELSE /\ hist[c].backoffRetries = Len(ds)
                   /\ timer[c] = 0

\* Three delays of 1000, 2000 and 3000 were taken and the third retry sent.
C16_Witness ==
    \E c \in Callers :
        /\ hist[c].resp = <<429, 429, 429>>
        /\ hist[c].delays = <<1000, 2000, 3000>>
        /\ hist[c].backoffRetries = 3
        /\ pc[c] = "await"

\* C17: callers that find no token each send a login request of their own;
\* with no failed response a finished call has succeeded, a token held is
\* the token of the login processed last, and while no call in progress was
\* answered 401 the token field is not absent once a login of a call in
\* progress has succeeded.
C17_ConcurrentLoginsHarmless ==
    /\ \A c \in Callers :
          /\ (Done(c) /\ hist[c].failures = 0) => Returned(c)
          /\ hist[c].lazy => hist[c].logins >= 1
    /\ accessToken # NoToken => accessToken = past.lastLogin
    /\ (/\ \A d \in Callers :
              401 \notin Range(hist[d].resp) \cup Range(hist[d].loginResp)
        /\ \E c \in Callers : hist[c].loginOks >= 1)
       => accessToken \in Tokens

\* Two calls began with no token and each sent a login request; both logins
\* succeeded, the first call has returned with the token of its own login
\* in its header, and the field holds the token of the other login,
\* processed last.
C17_Witness ==
    \E a, b \in Callers :
        /\ a # b
        /\ hist[a].lazy /\ hist[a].logins = 1 /\ hist[a].loginOks = 1
        /\ hist[b].lazy /\ hist[b].logins = 1 /\ hist[b].loginOks = 1
        /\ Returned(a)
        /\ headers[a] # NoToken
        /\ headers[a] # accessToken
        /\ headers[b] = accessToken
        /\ accessToken = past.lastLogin

\* C18: an authenticate() whose login request succeeds at once returns
\* successfully after that one login request, the token field then holds the
\* token of its response whatever was held before, and the step that stores
\* the token changes nothing else of the client; this holds for a second
\* authenticate() as for the first.
C18_AuthenticateTwice ==
    /\ [](\A c \in Callers :
            (Done(c) /\ hist[c].op = "authenticate" /\ hist[c].loginResp = <<200>>)
            => /\ Returned(c)
               /\ hist[c].logins = 1
               /\ hist[c].loginOks = 1
               /\ hist[c].sends = 0
               /\ accessToken = past.lastLogin
               /\ accessToken \in Tokens
               /\ stack[c] = <<>>
               /\ timer[c] = 0
               /\ settled[c] = NothingSettled)
    /\ [][\A c \in Callers :
            (Returns(c) /\ Top(c).fn = "login")
            => /\ accessToken' = settled[c].val
               /\ config' = config
               /\ transport' = transport
               /\ timer' = timer]_vars

\* The second of two successive authenticate() calls has returned: the
\* first had stored token 1, the field now holds token 2.
C18_Witness ==
    \E c \in Callers :
        /\ Returned(c)
        /\ hist[c].op = "authenticate"
        /\ hist[c].loginResp = <<200>>
        /\ calls = 2
        /\ past.lastOp = "authenticate"
        /\ hist[c].held = 1
        /\ accessToken = 2

\* C19: every invocation of handleRequest that a logical call begins with
\* has attempt counter 0, whatever earlier calls consumed; the counter of
\* the endpoint request is the number of retries of this call; a caller
\* between calls has no pending invocation and no pending delay.
C19_CounterPerCall ==
    /\ [](\A c \in Callers :
            /\ pc[c] \in {"idle", "done"} => stack[c] = <<>> /\ timer[c] = 0
            /\ (stack[c] # <<>> /\ Top(c).fn = "endpoint")
               => Top(c).rc = hist[c].reauthRetries + hist[c].backoffRetries
            /\ (stack[c] # <<>> /\ Top(c).fn = "endpoint" /\ hist[c].sends = 1)
               => Top(c).rc = 0)
    /\ [][\A c \in Callers :
            (pc[c] = "idle" /\ pc'[c] = "await")
            => /\ stack'[c][Len(stack'[c])].rc = 0
               /\ hist'[c].reauthRetries = 0
               /\ hist'[c].backoffRetries = 0
               /\ hist'[c].delays = <<>>]_vars

\* After a call that used retries, the next call has been retried three
\* times for 429, with the delays of a first call.
C19_Witness ==
    \E c \in Callers :
        /\ past.retried
        /\ calls = 2
        /\ hist[c].op = "endpoint"
        /\ hist[c].resp = <<429, 429, 429>>
        /\ hist[c].delays = <<1000, 2000, 3000>>
        /\ hist[c].backoffRetries = 3
        /\ Top(c).rc = 3

\* The wire key of each parameter of getOrders.
OrdersWireKey ==
    [include |-> "include", createdAt |-> "filter[created_at]",
     orderStatus |-> "filter[order_status]", description |-> "filter[description]",
     limit |-> "limit", page |-> "page"]

\* C20: getOrders requests GET /v2/orders with the params include,
\* filter[created_at], filter[order_status], filter[description], limit and
\* page holding the caller's include, createdAt, orderStatus, description,
\* limit and page unchanged; the wire query has exactly one entry for each
\* parameter supplied, under its wire key and with the caller's value, and
\* none for a parameter not supplied.
C20_OrdersQueryMapping ==
    probe.done
    => LET p == probe.in
           q == probe.out.params
       IN  /\ probe.out.method = "GET"
           /\ probe.out.url = "/v2/orders"
           /\ DOMAIN q = {OrdersWireKey[f] : f \in DOMAIN OrdersWireKey}
           /\ \A f \in DOMAIN OrdersWireKey : q[OrdersWireKey[f]] = p[f]
           /\ WireQuery(q) =
                 {<<OrdersWireKey[f], p[f]>> :
                     f \in {x \in DOMAIN OrdersWireKey : p[x] # Undefined}}
           /\ (p = [include |-> Undefined, createdAt |-> Undefined,
                    orderStatus |-> Str("completed"), description |-> Undefined,
                    limit |-> Num(10), page |-> Num(1)])
              => WireQuery(q) = {<<"limit", Num(10)>>, <<"page", Num(1)>>,
                                 <<"filter[order_status]", Str("completed")>>}

\* getOrders({limit: 10, page: 1, orderStatus: "completed"}) has built its
\* request: three query entries.
C20_Witness ==
    /\ probe.done
    /\ probe.in = [include |-> Undefined, createdAt |-> Undefined,
                   orderStatus |-> Str("completed"), description |-> Undefined,
                   limit |-> Num(10), page |-> Num(1)]
    /\ Cardinality(WireQuery(probe.out.params)) = 3
    /\ <<"filter[order_status]", Str("completed")>> \in WireQuery(probe.out.params)

\* The optional and the required form fields of each multipart method.
OptionalFields ==
    [createOrder |-> {"description", "brand_settings_name", "webhook_url"},
     createAsyncOrder |-> {"description", "brand_settings_name", "webhook_url",
                           "callback_url"},
     createTopupOrder |-> {"description"},
     updateSIMBrand |-> {"brand_settings_name"}]
RequiredFields ==
    [createOrder |-> {"quantity", "package_id", "type"},
     createAsyncOrder |-> {"quantity", "package_id", "type"},
     createTopupOrder |-> {"iccid", "package_id"},
     updateSIMBrand |-> {}]
\* The entries of a form under one name.
Entries(form, name) == {i \in 1..Len(form) : form[i][1] = name}
\* A multipart method has built the form of its request.
FormBuilt ==
    probe.done /\ probe.in.op \in DOMAIN OptionalFields

\* C21 as stated: an optional field is in the form if and only if the caller
\* supplied it.
C21_OptionalIffSupplied ==
    FormBuilt
    => \A f \in OptionalFields[probe.in.op] :
          Entries(probe.out.form, f) # {} <=> probe.in.data[f] # Undefined

\* C21: an optional field is in the form, once and with the caller's text,
\* if and only if the caller supplied it and it is not the empty string; no
\* entry of an optional field is empty, "undefined" or "null"; every
\* required field is in the form once; the form has no other entry.
C21_OptionalIffNonEmpty ==
    FormBuilt
    => LET form == probe.out.form
           data == probe.in.data
       IN  /\ \A f \in OptionalFields[probe.in.op] :
                 /\ Entries(form, f) # {}
                    <=> (data[f] # Undefined /\ data[f] # Str(""))
                 /\ \A i \in Entries(form, f) : form[i][2] = data[f].s
                 /\ Cardinality(Entries(form, f)) <= 1
           /\ \A f \in RequiredFields[probe.in.op] :
                 Cardinality(Entries(form, f)) = 1
           /\ \A i \in 1..Len(form) :
                 /\ form[i][1] \in OptionalFields[probe.in.op]
                    => form[i][2] \notin {"", "undefined", "null"}
                 /\ form[i][1] \in OptionalFields[probe.in.op]
                                      \cup RequiredFields[probe.in.op]

\* createAsyncOrder was given a description, the empty string as
\* webhook_url and no brand_settings_name: the form has the three required
\* fields, the description and the callback_url.
C21_Witness ==
    /\ FormBuilt
    /\ probe.in.op = "createAsyncOrder"
    /\ probe.in.data.description = Str("order note")
    /\ probe.in.data.brand_settings_name = Undefined
    /\ probe.in.data.webhook_url = Str("")
    /\ probe.in.data.quantity = Num(12)
    /\ probe.in.data.type = Str("sim")
    /\ probe.out.form = <<<<"quantity", "12">>,
                          <<"package_id", "kallur-digital-7days-1gb">>,
                          <<"type", "sim">>,
                          <<"description", "order note">>,
                          <<"callback_url", "https://example.com/done">>>>

\* C22: on the client the constructor builds, the failure handleRequest
\* inspects for an endpoint response of 401 or 429 still exposes the status
\* of the response, and handleRequest takes the branch of that status: after
\* a 401 on the first attempt the token is cleared and a login request goes
\* out, after a 429 with retries left a delay is taken.
C22_RetryPolicyReachable ==
    [][\A c \in Callers :
          (/\ Shipped
           /\ Catches(c)
           /\ Top(c).fn = "endpoint"
           /\ settled[c].status \in {401, 429})
          => /\ ResponseStatus(settled[c].err) = settled[c].status
             /\ settled[c].status = 401 /\ Top(c).rc < 1
                => /\ accessToken' = NoToken
                   /\ hist'[c].logins = hist[c].logins + 1
             /\ settled[c].status = 429 /\ Top(c).rc < maxRetries
                => pc'[c] = "delay"]_vars

\* C23: the request retried after a re-authentication carries the token the
\* re-authentication stored, not the token of the rejected attempt.
C23_RetryCarriesNewToken ==
    \A c \in Callers :
        (/\ pc[c] = "await"
         /\ Top(c).fn = "endpoint"
         /\ hist[c].reauthRetries = 1
         /\ hist[c].backoffRetries = 0
         /\ Len(hist[c].resp) = 1)
        => /\ headers[c] = accessToken
           /\ Authorization(headers[c]) = <<"Bearer", past.lastLogin>>


\* C24: every call of a public method ends: whatever the endpoints answer, a
\* call that has begun eventually returns or raises; a login endpoint that
\* keeps answering 401 does not keep the call sending login requests.
C24_EveryCallEnds ==
    \A c \in Callers : (pc[c] \notin {"idle", "done"}) ~> (pc[c] = "done")


\* The last element of a non-empty sequence.
Last(s) == s[Len(s)]

\* C25: in an endpoint call whose first attempt was answered 401 and was
\* retried after the re-authentication, the retry has attempt counter 1; the
\* delays of the 429 retries that follow are 2000 and then 3000, at most two
\* of them are taken, and the third consecutive 429 after the
\* re-authentication ends the call with that failure.
C25_SharedCounterAfterReauth ==
    /\ [](\A c \in Callers :
            (/\ hist[c].op = "endpoint"
             /\ hist[c].resp # <<>>
             /\ hist[c].resp[1] = 401
             /\ hist[c].reauthRetries = 1)
            => LET ds == hist[c].delays IN
               /\ Len(ds) <= 2
               /\ hist[c].backoffRetries <= 2
               /\ \A n \in 1..Len(ds) :
                     /\ ds[n] = retryDelay * (n + 1)
                     /\ ds[n] = <<2000, 3000>>[n]
               /\ stack[c] # <<>> /\ Top(c).fn = "endpoint"
                  => Top(c).rc = 1 + hist[c].backoffRetries
               /\ hist[c].sends <= 4)
    /\ [][\A c \in Callers :
            (/\ Catches(c)
             /\ hist[c].resp = <<401, 429, 429, 429>>)
            => /\ Propagates(c)
               /\ ResponseStatus(outcome'[c].err) = 429
               /\ hist'[c].delays = <<2000, 3000>>]_vars

\* A call answered 401, re-authenticated, then answered 429 three times has
\* ended with the failure after delays of 2000 and 3000.
C25_Witness ==
    \E c \in Callers :
        /\ Failed(c)
        /\ hist[c].resp = <<401, 429, 429, 429>>
        /\ hist[c].reauthRetries = 1
        /\ hist[c].delays = <<2000, 3000>>
        /\ hist[c].backoffRetries = 2
        /\ hist[c].sends = 4

\* C26: an endpoint call whose first attempt was answered 401 and whose
\* re-authentication failed, its login request answered with a failure other
\* than 401 and 429 (and no login request of the call with these), has ended
\* with a failure: the endpoint request was sent once and not retried, the
\* error raised is the error of the login request and not the 401, and the
\* token field is absent; a call that begins with the token field absent
\* sends a login request before its endpoint request.
C26_FailedReauthPropagates ==
    /\ [](\A c \in Callers :
            (/\ hist[c].op = "endpoint"
             /\ hist[c].resp = <<401>>
             /\ hist[c].reauths = 1
             /\ hist[c].loginResp # <<>>
             /\ Last(hist[c].loginResp) # 200
             /\ Range(hist[c].loginResp) \cap {401, 429} = {}
             /\ Done(c))
            => /\ Failed(c)
               /\ hist[c].sends = 1
               /\ hist[c].reauthRetries = 0
               /\ ResponseStatus(outcome[c].err) = Last(hist[c].loginResp)
               /\ ResponseStatus(outcome[c].err) # 401
               /\ outcome[c].err \in {Deliver(raw) : raw \in PipelineFailures}
               /\ accessToken = NoToken)
    /\ [][\A c \in Callers :
            (/\ pc[c] = "idle"
             /\ pc'[c] = "await"
             /\ hist'[c].op = "endpoint"
             /\ accessToken = NoToken)
            => /\ hist'[c].lazy
               /\ hist'[c].logins = 1
               /\ hist'[c].sends = 0
               /\ stack'[c][Len(stack'[c])].fn = "login"]_vars

\* A call that held a token was answered 401, its re-authentication was
\* answered 500, and it has ended with the login's failure, no token held.
C26_Witness ==
    \E c \in Callers :
        /\ Failed(c)
        /\ hist[c].held # NoToken
        /\ hist[c].resp = <<401>>
        /\ hist[c].loginResp = <<500>>
        /\ hist[c].sends = 1
        /\ ResponseStatus(outcome[c].err) = 500
        /\ accessToken = NoToken


C30_SendsBounded ==
    /\ [](\A c \in Callers :
            /\ hist[c].sends <= maxRetries + 1
            /\ hist[c].sends <= 4
            /\ hist[c].reauthRetries + hist[c].backoffRetries <= 3
            /\ (stack[c] # <<>> /\ stack[c][1].fn = "endpoint")
               => /\ stack[c][1].rc <= 3
                  /\ stack[c][1].rc = hist[c].sends - 1
                  /\ stack[c][1].rc = hist[c].reauthRetries + hist[c].backoffRetries)
    /\ [][\A c \in Callers :
            (/\ stack[c] # <<>> /\ stack[c][1].fn = "endpoint"
             /\ stack'[c] # <<>> /\ stack'[c][1].fn = "endpoint")
            => /\ stack'[c][1].rc \in {stack[c][1].rc, stack[c][1].rc + 1}
               /\ hist'[c].sends = hist[c].sends + (stack'[c][1].rc - stack[c][1].rc)]_vars

\* A call answered 401 and, after the re-authentication, 429 twice has its
\* fourth attempt in flight with attempt counter 3.
C30_Witness ==
    \E c \in Callers :
        /\ pc[c] = "await"
        /\ hist[c].resp = <<401, 429, 429>>
        /\ hist[c].sends = 4
        /\ Top(c) = Frame("endpoint", 3)


\* C27: with several calls in progress, the 401 branch of a call clears the
\* token field only when the field holds the token the rejected request
\* carried; a token stored since by the login of another call is not cleared.
C27_ClearsOnlyOwnToken ==
    [][\A c \in Callers :
          (/\ Catches(c)
           /\ Top(c).fn = "endpoint"
           /\ settled[c].status = 401
           /\ accessToken # NoToken
           /\ accessToken' = NoToken)
          => accessToken = headers[c]]_vars

\* C28: with several calls in progress and every login answered with a
\* token, every endpoint request in flight carries a token a login returned:
\* its header is never built from an absent token field.
C28_NeverBearerUndefined ==
    \A c \in Callers :
        (/\ pc[c] = "await"
         /\ Top(c).fn = "endpoint"
         /\ \A d \in Callers : Range(hist[d].loginResp) \subseteq {200})
        => /\ headers[c] \in Tokens
           /\ Authorization(headers[c]) # <<"Bearer", NoToken>>


\* C31: every login request a call has sent, for an explicit authenticate(),
\* for the lazy authentication and for a re-authentication alike, is a POST
\* to /v2/token whose form holds the client id and the client secret of the
\* configuration given at construction and grant_type "client_credentials",
\* with no Authorization header; the configuration never changes, so every
\* login of the client sends the same credentials.
C31_LoginRequestShape ==
    /\ config = TheConfig
    /\ \A c \in Callers :
          IF hist[c].logins = 0
          THEN hist[c].loginReq = NoLoginRequest
          ELSE LET r == hist[c].loginReq IN
               /\ r.method = "POST"
               /\ r.url = "/v2/token"
               /\ r.form = <<<<"client_id", TheConfig.clientId>>,
                             <<"client_secret", TheConfig.clientSecret>>,
                             <<"grant_type", "client_credentials">>>>
               /\ r.form = <<<<"client_id", "client-id">>,
                             <<"client_secret", "client-secret">>,
                             <<"grant_type", "client_credentials">>>>
               /\ "Authorization" \notin DOMAIN r.headers

\* The second call of the client is an explicit authenticate() made while a
\* token is held: its login request is in flight, with the credentials and
\* no Authorization header.
C31_Witness ==
    \E c \in Callers :
        /\ calls = 2
        /\ pc[c] = "await"
        /\ hist[c].op = "authenticate"
        /\ hist[c].held # NoToken
        /\ accessToken # NoToken
        /\ hist[c].logins = 1
        /\ hist[c].loginReq.form[1] = <<"client_id", "client-id">>
        /\ hist[c].loginReq.form[2] = <<"client_secret", "client-secret">>
        /\ DOMAIN hist[c].loginReq.headers = {"Accept"}


\* C32: the form createOrder sends has one type entry and its value is
\* "sim", beside one quantity and one package_id entry, whatever order
\* object the caller passed, one without a type field included.
C32_TypeAlwaysSim ==
    (probe.done /\ probe.in.op = "createOrder")
    => LET form == probe.out.form IN
       /\ \A f \in {"quantity", "package_id", "type"} :
             Cardinality(Entries(form, f)) = 1
       /\ \A i \in Entries(form, "type") : form[i][2] = "sim"

============================================================================
